---------------------------- MODULE Spec2Model ----------------------------
(***************************************************************************)
(* Model of pyblheli: the BLHeli 4-way frame codec (blheli_protocol.py),   *)
(* the transport session (blheli_4way.py) and the Silabs configuration     *)
(* orchestrator with its EEPROM layout codec (blheli_silabs.py).           *)
(***************************************************************************)
EXTENDS Integers, Sequences, FiniteSets, TLC

VARIABLES
    call,       \* arguments of the pending BLHeliProtocol.build call
    built,      \* result of BLHeliProtocol.build
    rx,         \* bytes handed to BLHeliProtocol.parse
    via,        \* where rx came from, and how many bytes the line appended
    parsed,     \* result of BLHeliProtocol.parse
    image,      \* bytes handed to EEPROM_LAYOUT.parse
    eeprom,     \* the decoded configuration image
    encoded,    \* result of EEPROM_LAYOUT.build
    count,      \* BLHeli4WayInterface.count
    device,     \* per ESC instance: the image in its flash and its boot mode
    op,         \* the orchestrator method the caller invoked, with its arguments
    esc,        \* the instance the current read_config / write_config works on
    pc,         \* the next session operation of that read_config / write_config
    wire,       \* request frames written to the serial port during the call
    mark,       \* length of wire when the current instance was started
    replies,    \* responses read for the current instance
    acc,        \* read_config_all: common_config and escs
    warnings,   \* lines logged as warnings during the call
    result,     \* outcome of the call
    shaped,     \* what parse_payload returned
    conn,       \* serial_connection: "none", an "open" or a "closed" port
    io,         \* what was done to the serial port, in order
    pending     \* the session method in progress and the calls made so far

codecVars == <<call, built, rx, via, parsed>>

eepromVars == <<image, eeprom, encoded>>

flowVars == <<count, device, op, esc, pc, wire, mark, replies, acc, warnings, result>>

sessionVars == <<conn, io, pending>>

vars == <<call, built, rx, via, parsed, image, eeprom, encoded,
          count, device, op, esc, pc, wire, mark, replies, acc, warnings, result,
          shaped, conn, io, pending>>

(***************************************************************************)
(* Bounds of the model.                                                    *)
(***************************************************************************)
MaxTrailing == 2      \* bytes the line may append after a frame
MaxCount == 3         \* ESC instances behind the interface
MaxCalls == 4         \* session methods the caller invokes in a row

(***************************************************************************)
(* Bit arithmetic on naturals.                                             *)
(***************************************************************************)
RECURSIVE Xor(_, _)
Xor(a, b) ==
    IF a = 0 THEN b
    ELSE IF b = 0 THEN a
    ELSE ((a + b) % 2) + 2 * Xor(a \div 2, b \div 2)

\* the exclusive or of two bytes, tabulated
XorByte == [a \in 0..255 |-> [b \in 0..255 |-> Xor(a, b)]]

Min(a, b) == IF a < b THEN a ELSE b

(***************************************************************************)
(* blheli_protocol.py : constants and enumerations.                        *)
(***************************************************************************)
REQUEST_START_BYTE == 47      \* 0x2F
RESPONSE_START_BYTE == 46     \* 0x2E

COMMAND_ENUM ==
    [ interface_test_alive  |-> 48, protocol_get_version |-> 49,
      interface_get_name    |-> 50, interface_get_version |-> 51,
      interface_exit        |-> 52, device_reset         |-> 53,
      device_init_flash     |-> 55, device_erase_all     |-> 56,
      device_page_erase     |-> 57, device_read          |-> 58,
      device_write          |-> 59, device_c2ck_low      |-> 60,
      device_read_eeprom    |-> 61, device_write_eeprom  |-> 62,
      interface_set_mode    |-> 63 ]

ACK_ENUM ==
    [ ok |-> 0, invalid_command |-> 2, invalid_crc |-> 3, verify_error |-> 4,
      invalid_channel |-> 8, invalid_param |-> 9, general_error |-> 15 ]

(* A value produced by parsing a construct Enum: the member name when the  *)
(* integer is a member (EnumIntegerString), the bare integer otherwise     *)
(* (EnumInteger).  A value given to Enum building is of the same two kinds.*)
EnumStr(s) == [kind |-> "str", s |-> s, i |-> 0]
EnumInt(n) == [kind |-> "int", s |-> "", i |-> n]

EnumDecode(mapping, n) ==
    IF \E k \in DOMAIN mapping : mapping[k] = n
    THEN EnumStr(CHOOSE k \in DOMAIN mapping : mapping[k] = n)
    ELSE EnumInt(n)

\* -1 stands for construct's MappingError
EnumEncode(mapping, v) ==
    IF v.kind = "int" THEN v.i
    ELSE IF v.s \in DOMAIN mapping THEN mapping[v.s]
    ELSE -1

(***************************************************************************)
(* CRC16/XMODEM as crcmod.mkCrcFun(0x11021, rev=False, initCrc=0,          *)
(* xorOut=0) computes it: a 256-entry table and one lookup per byte.       *)
(***************************************************************************)
CRC_POLY == 4129      \* 0x1021, the low 16 bits of 0x11021

RECURSIVE ByteCrc(_, _)
ByteCrc(crc, n) ==
    IF n = 0 THEN crc
    ELSE ByteCrc(IF crc >= 32768
                 THEN Xor((crc * 2) % 65536, CRC_POLY)
                 ELSE (crc * 2) % 65536, n - 1)

CrcTable == [i \in 0..255 |-> ByteCrc(i * 256, 8)]

\* crc = table[byte ^ (crc >> 8)] ^ ((crc << 8) & 0xFF00): the low byte of
\* the shifted register is zero, so only the high bytes are combined
CrcByte(crc, byte) ==
    LET t == CrcTable[XorByte[byte][crc \div 256]]
    IN  XorByte[t \div 256][crc % 256] * 256 + (t % 256)

\* the bytes data[lo..hi] fed to the register in order; the range is
\* halved, and the left half's value is tested so that it is computed
\* before the right half starts (the evaluation depth stays logarithmic)
RECURSIVE CrcRange(_, _, _, _)
CrcRange(crc, data, lo, hi) ==
    IF lo > hi THEN crc
    ELSE IF lo = hi THEN CrcByte(crc, data[lo])
    ELSE LET mid == (lo + hi) \div 2
             left == CrcRange(crc, data, lo, mid)
         IN  IF left >= 0 THEN CrcRange(left, data, mid + 1, hi) ELSE 0

CRC16_XMODEM(data) == CrcRange(0, data, 1, Len(data))

(***************************************************************************)
(* BLHeliProtocol.build                                                    *)
(***************************************************************************)
IsByte(b) == b \in 0..255

Int16ub(n) == <<n \div 256, n % 256>>

BuildError == [ok |-> FALSE, frame |-> <<>>]

\* REQUEST.build(dict(command, address, payload, crc)); <<>> stands for a
\* construct error (MappingError, FormatFieldError, ...)
RequestBuild(command, address, payload, crc) ==
    IF /\ EnumEncode(COMMAND_ENUM, command) \in 0..255
       /\ address \in 0..65535
       /\ Len(payload) <= 255
       /\ \A k \in 1..Len(payload) : IsByte(payload[k])
       /\ crc \in 0..65535
    THEN <<REQUEST_START_BYTE, EnumEncode(COMMAND_ENUM, command)>>
            \o Int16ub(address) \o <<Len(payload)>> \o payload \o Int16ub(crc)
    ELSE <<>>

\* the checksum taken over the whole first encoding, dummy crc included
BuildCrcOverDummy(command, address, payload) ==
    LET first == RequestBuild(command, address, payload, 0)
    IN  IF first = <<>> THEN BuildError
        ELSE [ok |-> TRUE,
              frame |-> RequestBuild(command, address, payload,
                                     CRC16_XMODEM(first))]

Build(command, address, payload) ==
    LET first == RequestBuild(command, address, payload, 0)
    IN  IF first = <<>> THEN BuildError
        ELSE LET crc == CRC16_XMODEM(SubSeq(first, 1, Len(first) - 2))
             IN  [ok |-> TRUE,
                  frame |-> RequestBuild(command, address, payload, crc)]

(***************************************************************************)
(* BLHeliProtocol.parse                                                    *)
(***************************************************************************)
ParseError ==
    [ok |-> FALSE, start_byte |-> 0, command |-> EnumInt(0), address |-> 0,
     payload |-> <<>>, ack |-> EnumInt(0), crc |-> 0]

\* RESPONSE.parse(frame): reads the fields from the front of the bytes and
\* leaves whatever follows the crc field unread; an ok of FALSE stands for
\* a construct error (ConstError on the start byte, StreamError on a short
\* input)
\* the address read low byte first
ResponseParseLittleEndian(frame) ==
    IF Len(frame) < 5 \/ frame[1] # RESPONSE_START_BYTE THEN ParseError
    ELSE LET n == frame[5]
         IN  IF Len(frame) < n + 8 THEN ParseError
             ELSE [ok |-> TRUE,
                   start_byte |-> frame[1],
                   command |-> EnumDecode(COMMAND_ENUM, frame[2]),
                   address |-> 256 * frame[4] + frame[3],
                   payload |-> SubSeq(frame, 6, 5 + n),
                   ack |-> EnumDecode(ACK_ENUM, frame[6 + n]),
                   crc |-> 256 * frame[7 + n] + frame[8 + n]]

ResponseParse(frame) ==
    IF Len(frame) < 5 \/ frame[1] # RESPONSE_START_BYTE THEN ParseError
    ELSE LET n == frame[5]
         IN  IF Len(frame) < n + 8 THEN ParseError
             ELSE [ok |-> TRUE,
                   start_byte |-> frame[1],
                   command |-> EnumDecode(COMMAND_ENUM, frame[2]),
                   address |-> 256 * frame[3] + frame[4],
                   payload |-> SubSeq(frame, 6, 5 + n),
                   ack |-> EnumDecode(ACK_ENUM, frame[6 + n]),
                   crc |-> 256 * frame[7 + n] + frame[8 + n]]

Parse(frame) ==
    IF Len(frame) = 0 THEN ParseError
    ELSE LET p == ResponseParse(frame)
         IN  IF ~p.ok THEN ParseError
             ELSE IF p.start_byte # RESPONSE_START_BYTE THEN ParseError
             ELSE IF p.crc # CRC16_XMODEM(SubSeq(frame, 1, Len(frame) - 2))
                  THEN ParseError
             ELSE p

\* REQUEST.parse(frame): the request layout read back from its bytes
RequestParse(frame) ==
    IF Len(frame) < 5 \/ frame[1] # REQUEST_START_BYTE THEN ParseError
    ELSE LET n == frame[5]
         IN  IF Len(frame) < n + 7 THEN ParseError
             ELSE [ok |-> TRUE,
                   start_byte |-> frame[1],
                   command |-> EnumDecode(COMMAND_ENUM, frame[2]),
                   address |-> 256 * frame[3] + frame[4],
                   payload |-> SubSeq(frame, 6, 5 + n),
                   ack |-> EnumStr("ok"),
                   crc |-> 256 * frame[6 + n] + frame[7 + n]]

\* RESPONSE.build: the bytes of a response frame, as the interface emits
\* them for a command, address, payload and ack
ResponseBuild(command, address, payload, ack) ==
    LET body == <<RESPONSE_START_BYTE, EnumEncode(COMMAND_ENUM, command)>>
                    \o Int16ub(address) \o <<Len(payload)>> \o payload
                    \o <<EnumEncode(ACK_ENUM, ack)>>
    IN  body \o Int16ub(CRC16_XMODEM(body))

\* line noise: bit k (0..15) of the last two bytes of the frame inverted
FlipCrcBit(frame, k) ==
    LET pos == IF k < 8 THEN Len(frame) ELSE Len(frame) - 1
    IN  [frame EXCEPT ![pos] = Xor(@, 2 ^ (k % 8))]

(***************************************************************************)
(* blheli_silabs.py : the EEPROM layout.  A text value is the sequence of  *)
(* its code points.                                                        *)
(***************************************************************************)
CONFIG_ADDRESS == 6656      \* 0x1A00
PAGE_SIZE == 512            \* 0x200

Field(name, kind, size, mapping) ==
    [name |-> name, kind |-> kind, size |-> size, mapping |-> mapping]

NoMapping == [k \in {} |-> 0]

Padding(n) == Field("", "pad", n, NoMapping)

STARTUP_POWER ==
    ("0.031" :> 1) @@ ("0.047" :> 2) @@ ("0.063" :> 3) @@ ("0.094" :> 4) @@
    ("0.125" :> 5) @@ ("0.188" :> 6) @@ ("0.25" :> 7) @@ ("0.38" :> 8) @@
    ("0.50" :> 9) @@ ("0.75" :> 10) @@ ("1.00" :> 11) @@ ("1.25" :> 12) @@
    ("1.50" :> 13)

MOTOR_DIRECTION == [normal |-> 1, reversed |-> 2, bidir |-> 3, bidir_reversed |-> 4]

MODE == [main |-> 42330, tail |-> 23205, multi |-> 21930]

COMMUTATION_TIMING ==
    [low |-> 1, medium_low |-> 2, medium |-> 3, medium_high |-> 4, high |-> 5]

BEACON_DELAY ==
    ("1_min" :> 1) @@ ("2_min" :> 2) @@ ("5_min" :> 3) @@ ("10_min" :> 4) @@
    ("infinite" :> 5)

DEMAG_COMPENSATION == [off |-> 1, low |-> 2, high |-> 3]

\* the member names of the source end in a degree sign
TEMPERATURE_PROTECTION ==
    ("disabled" :> 0) @@ ("80deg" :> 1) @@ ("90deg" :> 2) @@ ("100deg" :> 3) @@
    ("110deg" :> 4) @@ ("120deg" :> 5) @@ ("130deg" :> 6) @@ ("140deg" :> 7)

EEPROM_LAYOUT ==
    << Field("main_revision", "byte", 1, NoMapping),
       Field("sub_revision", "byte", 1, NoMapping),
       Field("layout_revision", "byte", 1, NoMapping),
       Padding(6),
       Field("startup_power", "enum", 1, STARTUP_POWER),
       Padding(1),
       Field("motor_direction", "enum", 1, MOTOR_DIRECTION),
       Padding(1),
       Field("mode", "enum", 2, MODE),
       Field("programming_by_tx", "flag", 1, NoMapping),
       Padding(5),
       Field("commutation_timing", "enum", 1, COMMUTATION_TIMING),
       Padding(3),
       Field("ppm_min_throttle", "byte", 1, NoMapping),
       Field("ppm_max_throttle", "byte", 1, NoMapping),
       Field("beep_strength", "byte", 1, NoMapping),
       Field("beacon_strength", "byte", 1, NoMapping),
       Field("beacon_delay", "enum", 1, BEACON_DELAY),
       Padding(1),
       Field("demag_compensation", "enum", 1, DEMAG_COMPENSATION),
       Padding(1),
       Field("ppm_center_throttle", "byte", 1, NoMapping),
       Padding(1),
       Field("temperature_protection", "enum", 1, TEMPERATURE_PROTECTION),
       Field("low_rpm_power_protection", "flag", 1, NoMapping),
       Padding(2),
       Field("brake_on_stop", "flag", 1, NoMapping),
       Field("led_control", "flag", 1, NoMapping),
       Padding(23),
       Field("layout", "text", 16, NoMapping),
       Field("mcu", "text", 16, NoMapping),
       Field("name", "text", 16, NoMapping) >>

DEVICE_INFO_FIELDS ==
    <<"main_revision", "sub_revision", "mode", "layout", "mcu", "name">>

COMMON_CONFIG_FIELDS ==
    <<"programming_by_tx", "commutation_timing", "beep_strength",
      "beacon_strength", "beacon_delay", "demag_compensation",
      "temperature_protection", "low_rpm_power_protection", "brake_on_stop",
      "led_control", "startup_power">>

ESC_CONFIG_FIELDS ==
    <<"motor_direction", "ppm_min_throttle", "ppm_max_throttle",
      "ppm_center_throttle">>

Range(seq) == {seq[k] : k \in 1..Len(seq)}

FieldIndexes == 1..Len(EEPROM_LAYOUT)

NamedIndexes == {k \in FieldIndexes : EEPROM_LAYOUT[k].kind # "pad"}

FieldNames == {EEPROM_LAYOUT[k].name : k \in NamedIndexes}

RECURSIVE SizeUpTo(_)
SizeUpTo(k) == IF k = 0 THEN 0 ELSE SizeUpTo(k - 1) + EEPROM_LAYOUT[k].size

\* offset of the k-th member of the layout, and EEPROM_LAYOUT.sizeof()
FieldOffset == [k \in FieldIndexes |-> SizeUpTo(k - 1)]

LayoutSizeof == SizeUpTo(Len(EEPROM_LAYOUT))

IndexOf(name) == CHOOSE k \in NamedIndexes : EEPROM_LAYOUT[k].name = name

(***************************************************************************)
(* PaddedString(16, "utf8"): trailing NUL bytes are stripped and the rest  *)
(* is decoded as strict UTF-8; building encodes and pads with NUL bytes.   *)
(***************************************************************************)
RECURSIVE RStripNul(_)
RStripNul(b) ==
    IF Len(b) = 0 \/ b[Len(b)] # 0 THEN b
    ELSE RStripNul(SubSeq(b, 1, Len(b) - 1))

IsCont(b, k) == k <= Len(b) /\ b[k] \in 128..191

Utf8Error == [ok |-> FALSE, cps |-> <<>>]

RECURSIVE Utf8DecodeFrom(_, _, _)
Utf8DecodeFrom(b, k, out) ==
    IF k > Len(b) THEN [ok |-> TRUE, cps |-> out]
    ELSE LET b0 == b[k]
         IN  IF b0 < 128 THEN Utf8DecodeFrom(b, k + 1, Append(out, b0))
             ELSE IF b0 \in 194..223
             THEN IF IsCont(b, k + 1)
                  THEN Utf8DecodeFrom(b, k + 2,
                          Append(out, (b0 - 192) * 64 + (b[k + 1] - 128)))
                  ELSE Utf8Error
             ELSE IF b0 \in 224..239
             THEN IF /\ IsCont(b, k + 1) /\ IsCont(b, k + 2)
                     /\ (b0 = 224 => b[k + 1] >= 160)
                     /\ (b0 = 237 => b[k + 1] <= 159)
                  THEN Utf8DecodeFrom(b, k + 3,
                          Append(out, (b0 - 224) * 4096 + (b[k + 1] - 128) * 64
                                        + (b[k + 2] - 128)))
                  ELSE Utf8Error
             ELSE IF b0 \in 240..244
             THEN IF /\ IsCont(b, k + 1) /\ IsCont(b, k + 2) /\ IsCont(b, k + 3)
                     /\ (b0 = 240 => b[k + 1] >= 144)
                     /\ (b0 = 244 => b[k + 1] <= 143)
                  THEN Utf8DecodeFrom(b, k + 4,
                          Append(out, (b0 - 240) * 262144
                                        + (b[k + 1] - 128) * 4096
                                        + (b[k + 2] - 128) * 64
                                        + (b[k + 3] - 128)))
                  ELSE Utf8Error
             ELSE Utf8Error

Utf8Decode(b) == Utf8DecodeFrom(b, 1, <<>>)

\* <<-1>> stands for a UnicodeEncodeError
Utf8EncodeChar(cp) ==
    IF cp \in 0..127 THEN <<cp>>
    ELSE IF cp \in 128..2047 THEN <<192 + (cp \div 64), 128 + (cp % 64)>>
    ELSE IF cp \in 55296..57343 THEN <<-1>>
    ELSE IF cp \in 2048..65535
    THEN <<224 + (cp \div 4096), 128 + ((cp \div 64) % 64), 128 + (cp % 64)>>
    ELSE IF cp \in 65536..1114111
    THEN <<240 + (cp \div 262144), 128 + ((cp \div 4096) % 64),
           128 + ((cp \div 64) % 64), 128 + (cp % 64)>>
    ELSE <<-1>>

RECURSIVE Utf8Encode(_)
Utf8Encode(cps) ==
    IF Len(cps) = 0 THEN <<>>
    ELSE Utf8EncodeChar(Head(cps)) \o Utf8Encode(Tail(cps))

(***************************************************************************)
(* EEPROM_LAYOUT.parse and EEPROM_LAYOUT.build                             *)
(***************************************************************************)
NoFields == [n \in {} |-> 0]

LayoutParseError == [ok |-> FALSE, fields |-> NoFields]

TextParse(data, off) == Utf8Decode(RStripNul(SubSeq(data, off + 1, off + 16)))

FieldParse(f, data, off) ==
    IF f.kind = "byte" THEN data[off + 1]
    ELSE IF f.kind = "enum"
    THEN EnumDecode(f.mapping, IF f.size = 1 THEN data[off + 1]
                               ELSE 256 * data[off + 1] + data[off + 2])
    ELSE IF f.kind = "flag" THEN data[off + 1] # 0
    ELSE TextParse(data, off).cps

\* a short input is a StreamError, undecodable text a decoding error;
\* bytes after the layout are left unread
LayoutParse(data) ==
    IF Len(data) < LayoutSizeof THEN LayoutParseError
    ELSE IF \E k \in NamedIndexes :
                /\ EEPROM_LAYOUT[k].kind = "text"
                /\ ~TextParse(data, FieldOffset[k]).ok
    THEN LayoutParseError
    ELSE [ok |-> TRUE,
          fields |-> [n \in FieldNames |->
                        FieldParse(EEPROM_LAYOUT[IndexOf(n)], data,
                                   FieldOffset[IndexOf(n)])]]

\* Padding(n, pattern=b'\xff') written with a zero pattern
PaddingBuildZero(n) == [k \in 1..n |-> 0]

PaddingBuild(n) == [k \in 1..n |-> 255]

TextBuild(cps) ==
    LET enc == Utf8Encode(cps)
    IN  IF Len(enc) > 16 \/ \E k \in 1..Len(enc) : enc[k] < 0 THEN <<-1>>
        ELSE enc \o [k \in 1..(16 - Len(enc)) |-> 0]

\* the bytes of one member; <<-1>> stands for a construct error
FieldBuild(f, fields) ==
    IF f.kind = "pad" THEN PaddingBuild(f.size)
    ELSE LET v == fields[f.name]
         IN  IF f.kind = "byte"
             THEN IF v \in 0..255 THEN <<v>> ELSE <<-1>>
             ELSE IF f.kind = "enum"
             THEN LET e == EnumEncode(f.mapping, v)
                  IN  IF f.size = 1
                      THEN IF e \in 0..255 THEN <<e>> ELSE <<-1>>
                      ELSE IF e \in 0..65535 THEN Int16ub(e) ELSE <<-1>>
             ELSE IF f.kind = "flag" THEN <<IF v THEN 1 ELSE 0>>
             ELSE TextBuild(v)

RECURSIVE BuildUpTo(_, _)
BuildUpTo(fields, k) ==
    IF k = 0 THEN <<>>
    ELSE BuildUpTo(fields, k - 1) \o FieldBuild(EEPROM_LAYOUT[k], fields)

LayoutBuildError == [ok |-> FALSE, bytes |-> <<>>]

LayoutBuild(fields) ==
    LET b == BuildUpTo(fields, Len(EEPROM_LAYOUT))
    IN  IF \E k \in 1..Len(b) : b[k] < 0 THEN LayoutBuildError
        ELSE [ok |-> TRUE, bytes |-> b]

(***************************************************************************)
(* BLHeliProtocol.parse_payload                                            *)
(***************************************************************************)
FLASH_MODE == [SiLabsC2 |-> 0, SiLabsBLB |-> 1, AtmelBLB |-> 2, AtmelSK |-> 3]

\* commands with a one-byte Struct and with a PrefixedArray in REQUEST_PAYLOAD
REQUEST_PAYLOAD_STRUCT ==
    {"device_reset", "device_page_erase", "device_read", "device_c2ck_low",
     "device_read_eeprom", "interface_set_mode"}

REQUEST_PAYLOAD_ARRAY == {"device_write", "device_write_eeprom"}

RESPONSE_PAYLOAD == {"device_init_flash"}

PayloadError ==
    [ok |-> FALSE, shape |-> "none", raw |-> <<>>, value |-> <<>>,
     mode |-> EnumInt(0)]

PayloadOf(shape, raw, value, mode) ==
    [ok |-> TRUE, shape |-> shape, raw |-> raw, value |-> value, mode |-> mode]

\* the response table used whatever the start byte
ParsePayloadResponseTable(frame) ==
    LET raw == frame.payload
        name == IF frame.command.kind = "str" THEN frame.command.s ELSE ""
    IN  IF name \in RESPONSE_PAYLOAD
        THEN IF Len(raw) < 4 THEN PayloadError
             ELSE PayloadOf("init_flash", raw, SubSeq(raw, 1, 3),
                            EnumDecode(FLASH_MODE, raw[4]))
        ELSE PayloadOf("raw", raw, raw, EnumInt(0))

\* parse_payload(frame): the table chosen by the start byte, the shape by
\* the command; a shape reads from the front of the payload and leaves
\* what follows unread, and fails when the payload ends too early
ParsePayload(frame) ==
    LET raw == frame.payload
        name == IF frame.command.kind = "str" THEN frame.command.s ELSE ""
    IN  IF frame.start_byte = REQUEST_START_BYTE
        THEN IF name \in REQUEST_PAYLOAD_STRUCT
             THEN IF Len(raw) < 1 THEN PayloadError
                  ELSE PayloadOf("struct", raw, <<raw[1]>>, EnumInt(0))
             ELSE IF name \in REQUEST_PAYLOAD_ARRAY
             THEN IF Len(raw) < 1 \/ Len(raw) < 1 + raw[1] THEN PayloadError
                  ELSE PayloadOf("array", raw, SubSeq(raw, 2, 1 + raw[1]),
                                 EnumInt(0))
             ELSE PayloadOf("raw", raw, raw, EnumInt(0))
        ELSE IF name \in RESPONSE_PAYLOAD
             THEN IF Len(raw) < 4 THEN PayloadError
                  ELSE PayloadOf("init_flash", raw, SubSeq(raw, 1, 3),
                                 EnumDecode(FLASH_MODE, raw[4]))
             ELSE PayloadOf("raw", raw, raw, EnumInt(0))

(***************************************************************************)
(* The ESC instances behind the interface, and what the serial line can    *)
(* deliver in answer to a request.                                         *)
(***************************************************************************)
\* a configuration image as a BLHeli_S device holds it
BaseImage ==
    << 16, 7, 33, 255, 255, 9, 9, 255, 255, 9, 255, 1, 0, 85, 170, 1,
       255, 255, 255, 255, 255, 3, 255, 255, 255, 37, 208, 40, 80, 4, 255, 2,
       255, 122, 255, 7, 1, 255, 255, 0, 0, 255, 255, 255, 255, 255, 255, 255,
       255, 255, 255, 255, 255, 255, 255, 255, 255, 255, 255, 255, 255, 255, 255, 255,
       35, 83, 95, 72, 95, 53, 48, 35, 32, 32, 32, 32, 32, 32, 32, 32,
       35, 66, 76, 72, 69, 76, 73, 36, 69, 70, 77, 56, 66, 50, 49, 35,
       69, 83, 67, 0, 0, 0, 0, 0, 0, 0, 0, 0, 0, 0, 0, 0 >>

SampleBytes == {0, 1, 2, 65, 195, 255}

\* the image with the byte at offset off replaced by v and, when w is not
\* negative, the next byte replaced by w
Patched(img, off, v, w) ==
    [k \in 1..Len(img) |->
        IF k = off + 1 THEN v
        ELSE IF k = off + 2 /\ w >= 0 THEN w
        ELSE img[k]]


BeepStrengthOffset == 27
MotorDirectionOffset == 11
ProgrammingByTxOffset == 15
NameOffset == 96

Esc(img, mode) == [image |-> img, mode |-> mode]

NominalEsc == Esc(BaseImage, 1)

\* an instance whose image differs from the others in one common-config
\* field (beep_strength)
CommonVariant == Esc(Patched(BaseImage, BeepStrengthOffset, 41, -1), 1)

\* instances that differ in an esc-config field, in the byte of a flag
\* (same value), in holding erased text bytes, and in the boot mode
OtherVariants ==
    { Esc(Patched(BaseImage, MotorDirectionOffset, 2, -1), 1),
      Esc(Patched(BaseImage, ProgrammingByTxOffset, 255, -1), 1),
      Esc(Patched(BaseImage, NameOffset, 255, -1), 1),
      Esc(BaseImage, 2) }

Rigs(n) ==
    { [e \in 0..(n - 1) |-> NominalEsc] }
    \cup { [e \in 0..(n - 1) |-> IF e = k THEN CommonVariant ELSE NominalEsc]
            : k \in 0..(n - 1) }
    \cup { [e \in 0..(n - 1) |-> IF e = 0 THEN v ELSE NominalEsc]
            : v \in OtherVariants }

\* serial read(expected_length): at most expected_length of the bytes
SerialRead(avail, n) == SubSeq(avail, 1, Min(Len(avail), n))

\* the bytes the line holds after a request: the response with ack ok, the
\* response with ack general_error, nothing (the read times out), or the
\* response with a damaged crc
DeviceAnswers(command, address, payload) ==
    LET good == ResponseBuild(EnumStr(command), address, payload, EnumStr("ok"))
    IN  { good,
          ResponseBuild(EnumStr(command), address, payload,
                        EnumStr("general_error")),
          <<>>,
          FlipCrcBit(good, 0) }

(***************************************************************************)
(* blheli_silabs.py : pieces of read_config and write_config.              *)
(***************************************************************************)
\* any member of the layout taken for a configuration field
InScopeAnyField(key) == key \in FieldNames

InScope(key) ==
    key \in Range(COMMON_CONFIG_FIELDS) \/ key \in Range(ESC_CONFIG_FIELDS)

\* the parameters left out of the image
PatchFieldsDropped(fields, params) == fields

\* the loop of write_config over params.items(): eeprom[key] = value for a
\* known key
RECURSIVE PatchFields(_, _)
PatchFields(fields, params) ==
    IF Len(params) = 0 THEN fields
    ELSE LET key == Head(params)[1]
             value == Head(params)[2]
         IN  PatchFields(IF InScope(key) THEN [fields EXCEPT ![key] = value]
                         ELSE fields,
                         Tail(params))

\* a report that always names the first instance
WarningFirst(kind, e, key) == [kind |-> kind, esc |-> 0, key |-> key]

\* a line of the log: its kind, the instance it names (ESC #e+1 in the
\* text) and the key it quotes
Warning(kind, e, key) == [kind |-> kind, esc |-> e, key |-> key]

\* ... and log('Invalid parameter', key) for any other key
RECURSIVE PatchWarnings(_, _)
PatchWarnings(e, params) ==
    IF Len(params) = 0 THEN <<>>
    ELSE (IF InScope(Head(params)[1]) THEN <<>>
          ELSE <<Warning("invalid_parameter", e, Head(params)[1])>>)
         \o PatchWarnings(e, Tail(params))

\* characters str.strip() removes
Whitespace ==
    (9..13) \cup (28..32) \cup {133, 160, 5760} \cup (8192..8202)
        \cup {8232, 8233, 8239, 8287, 12288}

RECURSIVE LStrip(_)
LStrip(cps) ==
    IF Len(cps) = 0 \/ Head(cps) \notin Whitespace THEN cps
    ELSE LStrip(Tail(cps))

RECURSIVE RStrip(_)
RStrip(cps) ==
    IF Len(cps) = 0 \/ cps[Len(cps)] \notin Whitespace THEN cps
    ELSE RStrip(SubSeq(cps, 1, Len(cps) - 1))

\* str(eeprom[field]).strip()
InfoString(f, v) ==
    IF f.kind = "byte" THEN ToString(v)
    ELSE IF f.kind = "enum" THEN (IF v.kind = "str" THEN v.s ELSE ToString(v.i))
    ELSE IF f.kind = "flag" THEN (IF v THEN "True" ELSE "False")
    ELSE RStrip(LStrip(v))

DeviceInfo(fields) ==
    [n \in Range(DEVICE_INFO_FIELDS) |->
        InfoString(EEPROM_LAYOUT[IndexOf(n)], fields[n])]

CommonConfig(fields) == [n \in Range(COMMON_CONFIG_FIELDS) |-> fields[n]]

EscConfig(fields) == [n \in Range(ESC_CONFIG_FIELDS) |-> fields[n]]

NoResult == [status |-> "none", error |-> "", value |-> <<>>]
Success(value) == [status |-> "success", error |-> "", value |-> value]
Failure(error) == [status |-> "error", error |-> error, value |-> <<>>]

NoAcc == [common_config |-> NoFields, escs |-> <<>>]

NoOp == [name |-> "idle", params |-> <<>>]

\* the orchestrator before any call, behind one nominal instance
FlowIdle ==
    /\ count = 1
    /\ device = [e \in {0} |-> NominalEsc]
    /\ op = NoOp
    /\ esc = 0
    /\ pc = "idle"
    /\ wire = <<>>
    /\ mark = 0
    /\ replies = <<>>
    /\ acc = NoAcc
    /\ warnings = <<>>
    /\ result = NoResult

NotShaped == [done |-> FALSE, of |-> "none"] @@ PayloadError

NoPending == [name |-> "none", step |-> "idle", rest |-> <<>>, calls |-> 0]

\* what a successful BlHeliSilabs.connect does to the port: open, the two
\* flushes, the test_alive and the get_name exchanges
ConnectTrace == <<"open", "flush", "flush", "write", "read", "write", "read">>

\* BLHeli4WayInterface.__init__: no serial port yet
SessionIdle ==
    /\ conn = "none"
    /\ io = <<>>
    /\ pending = NoPending

(***************************************************************************)
(* The frame codec on its own: a caller builds a request, the line         *)
(* delivers bytes (the request looped back, the interface's response to    *)
(* it, or a recorded frame, possibly followed by stray bytes), and the     *)
(* bytes are parsed.                                                       *)
(***************************************************************************)
Zeros(n) == [k \in 1..n |-> 0]

CommandNames == DOMAIN COMMAND_ENUM

SampleAddresses == {0, 6656, 43707, 65535, 65536}

SamplePayloads ==
    {<<>>, <<0>>, <<15>>, <<1, 2, 255>>, <<256>>, Zeros(255), Zeros(256)}

SampleAcks == {EnumStr("ok"), EnumStr("general_error"), EnumInt(1)}

\* frames of the module's self test (blheli_protocol.py, __main__), a frame
\* cut short, a response whose crc field holds 0x5518, and well-formed
\* responses with the opcode 0x36 and with device_init_flash payloads of
\* three and of five bytes
SampleFrames ==
    { <<46, 54, 0, 0, 1, 0, 0, 201, 35>>,
      <<46, 55, 0, 0, 3, 243, 48, 170, 0, 136, 28>>,
      <<46, 55, 0, 0, 5, 243, 48, 170, 1, 0, 0, 215, 153>>,
      <<46, 52, 0, 0, 1, 0, 0, 66, 99>>,
      <<46, 52, 0, 0, 1, 0, 0, 66, 100>>,
      <<46, 55, 0, 0, 4, 243, 48, 170, 1, 0, 247, 240>>,
      <<46, 52, 0, 0, 1, 0, 0, 85, 24>>,
      <<46, 52, 0, 0, 1>>,
      <<47, 56, 0, 0, 1, 0, 205, 249>> }

\* build(command) with address and payload left to their defaults, and
\* build(command, address, payload)
BuildCalls ==
    { [command |-> EnumStr(c), given |-> FALSE, address |-> 0, payload |-> <<0>>]
        : c \in CommandNames \cup {"bogus"} }
    \cup
    { [command |-> EnumStr(c), given |-> TRUE, address |-> a, payload |-> p]
        : c \in {"device_read", "device_write", "interface_exit"},
          a \in SampleAddresses, p \in SamplePayloads }

NotBuilt == [done |-> FALSE, ok |-> FALSE, frame |-> <<>>]
NotParsed == [done |-> FALSE] @@ ParseError
NoSource == [src |-> "none", trailing |-> 0, ack |-> EnumStr("ok")]

\* the default argument values of build
BuildCall(c) ==
    Build(c.command,
          IF c.given THEN c.address ELSE 0,
          IF c.given THEN c.payload ELSE <<0>>)

InitCodec ==
    /\ call \in BuildCalls
    /\ built = NotBuilt
    /\ rx = <<>>
    /\ via = NoSource
    /\ parsed = NotParsed
    /\ image = <<>>
    /\ eeprom = [done |-> FALSE, ok |-> FALSE, fields |-> [n \in {} |-> 0]]
    /\ encoded = [done |-> FALSE, ok |-> FALSE, bytes |-> <<>>]
    /\ FlowIdle
    /\ shaped = NotShaped
    /\ SessionIdle

BuildFrame ==
    /\ ~built.done
    /\ via.src = "none"
    /\ built' = [done |-> TRUE] @@ BuildCall(call)
    /\ UNCHANGED <<call, rx, via, parsed, eepromVars, flowVars, shaped, sessionVars>>

\* parse(build(...)): the request bytes themselves are handed to parse
Loopback ==
    /\ built.done /\ built.ok
    /\ via.src = "none" /\ ~parsed.done
    /\ rx' = built.frame
    /\ via' = [via EXCEPT !.src = "loopback"]
    /\ UNCHANGED <<call, built, parsed, eepromVars, flowVars, shaped, sessionVars>>

\* the interface answers the request with a response frame that carries
\* the same command, address and payload
DeviceRespond ==
    /\ built.done /\ built.ok
    /\ via.src = "none" /\ ~parsed.done
    /\ \E ack \in SampleAcks :
        /\ rx' = ResponseBuild(call.command,
                               IF call.given THEN call.address ELSE 0,
                               IF call.given THEN call.payload ELSE <<0>>, ack)
        /\ via' = [via EXCEPT !.src = "respond", !.ack = ack]
    /\ UNCHANGED <<call, built, parsed, eepromVars, flowVars, shaped, sessionVars>>

Receive ==
    /\ ~built.done
    /\ ~call.given /\ call.command = EnumStr("interface_exit")
    /\ via.src = "none" /\ ~parsed.done
    /\ \E s \in SampleFrames :
        /\ rx' = s
        /\ via' = [via EXCEPT !.src = "sample"]
    /\ UNCHANGED <<call, built, parsed, eepromVars, flowVars, shaped, sessionVars>>

\* stray bytes on the line after the frame
AppendByte ==
    /\ via.src \in {"respond", "sample"}
    /\ ~parsed.done
    /\ via.trailing < MaxTrailing
    /\ \E b \in {0, 255} : rx' = Append(rx, b)
    /\ via' = [via EXCEPT !.trailing = @ + 1]
    /\ UNCHANGED <<call, built, parsed, eepromVars, flowVars, shaped, sessionVars>>

ParseFrame ==
    /\ ~parsed.done
    /\ parsed' = [done |-> TRUE] @@ Parse(rx)
    /\ UNCHANGED <<call, built, rx, via, eepromVars, flowVars, shaped, sessionVars>>

\* parse_payload(parse(frame))
ShapeResponse ==
    /\ parsed.done /\ parsed.ok
    /\ ~shaped.done
    /\ shaped' = [done |-> TRUE, of |-> "response"] @@ ParsePayload(parsed)
    /\ UNCHANGED <<codecVars, eepromVars, flowVars, sessionVars>>

\* parse_payload(REQUEST.parse(frame)) on the request just built
ShapeRequest ==
    /\ built.done /\ built.ok
    /\ via.src = "none" /\ ~parsed.done
    /\ ~shaped.done
    /\ shaped' = [done |-> TRUE, of |-> "request"]
                    @@ ParsePayload(RequestParse(built.frame))
    /\ UNCHANGED <<codecVars, eepromVars, flowVars, sessionVars>>

NextCodec ==
    \/ BuildFrame
    \/ Loopback
    \/ DeviceRespond
    \/ Receive
    \/ AppendByte
    \/ ParseFrame
    \/ ShapeResponse
    \/ ShapeRequest

SpecCodec == InitCodec /\ [][NextCodec]_vars

(***************************************************************************)
(* The layout codec on its own: an image is decoded, then encoded again.   *)
(***************************************************************************)
EepromImages ==
    { Patched(BaseImage, off, v, w) :
        off \in 0..(Len(BaseImage) - 1), v \in SampleBytes, w \in {-1, 128, 169} }
    \cup { SubSeq(BaseImage, 1, Len(BaseImage) - 1), BaseImage \o <<0>> }

NotDecoded == [done |-> FALSE] @@ LayoutParseError
NotEncoded == [done |-> FALSE] @@ LayoutBuildError

InitEeprom ==
    /\ image \in EepromImages
    /\ eeprom = NotDecoded
    /\ encoded = NotEncoded
    /\ call = [command |-> EnumStr("interface_exit"), given |-> FALSE,
               address |-> 0, payload |-> <<0>>]
    /\ built = NotBuilt
    /\ rx = <<>>
    /\ via = NoSource
    /\ parsed = NotParsed
    /\ FlowIdle
    /\ shaped = NotShaped
    /\ SessionIdle

DecodeImage ==
    /\ ~eeprom.done
    /\ eeprom' = [done |-> TRUE] @@ LayoutParse(image)
    /\ UNCHANGED <<image, encoded, codecVars, flowVars, shaped, sessionVars>>

EncodeImage ==
    /\ eeprom.done /\ eeprom.ok
    /\ ~encoded.done
    /\ encoded' = [done |-> TRUE] @@ LayoutBuild(eeprom.fields)
    /\ UNCHANGED <<image, eeprom, codecVars, flowVars, shaped, sessionVars>>

NextEeprom ==
    \/ DecodeImage
    \/ EncodeImage

SpecEeprom == InitEeprom /\ [][NextEeprom]_vars

(***************************************************************************)
(* The orchestrator: a caller invokes read_config, write_config,            *)
(* read_config_all or write_config_all once; each step is one session      *)
(* operation (a request written, a response read and parsed) together with *)
(* the code that runs up to the next one.                                  *)
(***************************************************************************)
DEFAULT_EXPECTED_LENGTH == 64

\* keyword arguments of write_config and write_config_all, in call order
ParamSets ==
    { <<>>,
      << <<"motor_direction", EnumStr("reversed")>> >>,
      << <<"beep_strength", 100>>, <<"brake_on_stop", TRUE>> >>,
      << <<"unknown_field", 1>>, <<"layout_revision", 9>>,
         <<"name", <<88>> >>, <<"ppm_min_throttle", 30>> >>,
      << <<"beep_strength", 256>> >> }

\* every operation taken for a write
WriteOpsAll == {"write_config", "write_config_all", "read_config"}

WriteOps == {"write_config", "write_config_all"}
AllOps == {"read_config_all", "write_config_all"}

Init ==
    /\ count \in 1..MaxCount
    /\ device \in Rigs(count)
    /\ op = NoOp
    /\ esc = 0
    /\ pc = "idle"
    /\ wire = <<>>
    /\ mark = 0
    /\ replies = <<>>
    /\ acc = NoAcc
    /\ warnings = <<>>
    /\ result = NoResult
    /\ call = [command |-> EnumStr("interface_exit"), given |-> FALSE,
               address |-> 0, payload |-> <<0>>]
    /\ built = NotBuilt
    /\ rx = <<>>
    /\ via = NoSource
    /\ parsed = NotParsed
    /\ image = <<>>
    /\ eeprom = NotDecoded
    /\ encoded = NotEncoded
    /\ shaped = NotShaped
    /\ conn = "open"
    /\ io = ConnectTrace
    /\ pending = NoPending

\* send_command followed by read_response, r being the bytes on the line
Exchange(command, address, payload, expected_length, r) ==
    /\ call' = [command |-> EnumStr(command), given |-> TRUE,
                address |-> address, payload |-> payload]
    /\ built' = [done |-> TRUE] @@ Build(EnumStr(command), address, payload)
    /\ via' = [NoSource EXCEPT !.src = "serial"]
    /\ IF built'.ok
       THEN /\ wire' = Append(wire, built'.frame)
            /\ rx' = SerialRead(r, expected_length)
            /\ parsed' = [done |-> TRUE] @@ Parse(rx')
            /\ io' = io \o <<"write", "read">>
       ELSE UNCHANGED <<wire, rx, parsed, io>>
    /\ UNCHANGED <<conn, pending>>

\* the response to command as the current instance saw it
Logged(command) ==
    replies' = IF built'.ok
               THEN Append(replies, [command |-> command, ok |-> parsed'.ok,
                                     ack |-> parsed'.ack])
               ELSE replies

\* the exception swallowed and the instance reset all the same
AbortThenReset(error) ==
    /\ pc' = "reset_esc"
    /\ result' = result
    /\ UNCHANGED <<count, device, op, esc, mark, acc>>

\* an exception leaves the call
Abort(error) ==
    /\ pc' = "done"
    /\ result' = Failure(error)
    /\ UNCHANGED <<count, device, op, esc, mark, acc>>

Goto(next) ==
    /\ pc' = next
    /\ UNCHANGED <<count, device, op, esc, mark, acc, result>>

\* the exception the exchange raised, "" when it raised none
ExchangeError(b, p) ==
    IF ~b.ok THEN "Encoding error"
    ELSE IF ~p.ok THEN "Decoding error"
    ELSE ""

\* the entry without the assertion on esc
EnterUnchecked(e) ==
    /\ esc' = e
    /\ mark' = Len(wire')
    /\ replies' = <<>>
    /\ image' = <<>>
    /\ eeprom' = NotDecoded
    /\ encoded' = NotEncoded
    /\ pc' = "init_flash" /\ result' = result

\* entry of read_config / write_config for instance e: the assertion on esc
Enter(e) ==
    /\ esc' = e
    /\ mark' = Len(wire')
    /\ replies' = <<>>
    /\ image' = <<>>
    /\ eeprom' = NotDecoded
    /\ encoded' = NotEncoded
    /\ IF e >= 0 /\ e < count
       THEN pc' = "init_flash" /\ result' = result
       ELSE pc' = "done" /\ result' = Failure("AssertionError")

CallReadConfig ==
    /\ pc = "idle"
    /\ \E e \in -1..count :
        /\ op' = [name |-> "read_config", params |-> <<>>]
        /\ wire' = <<>>
        /\ Enter(e)
    /\ UNCHANGED <<count, device, acc, warnings, codecVars, shaped, sessionVars>>

CallWriteConfig ==
    /\ pc = "idle"
    /\ \E e \in -1..count, params \in ParamSets :
        /\ op' = [name |-> "write_config", params |-> params]
        /\ wire' = <<>>
        /\ Enter(e)
    /\ UNCHANGED <<count, device, acc, warnings, codecVars, shaped, sessionVars>>

CallReadConfigAll ==
    /\ pc = "idle"
    /\ op' = [name |-> "read_config_all", params |-> <<>>]
    /\ wire' = <<>>
    /\ Enter(0)
    /\ UNCHANGED <<count, device, acc, warnings, codecVars, shaped, sessionVars>>

CallWriteConfigAll ==
    /\ pc = "idle"
    /\ \E params \in ParamSets :
        /\ op' = [name |-> "write_config_all", params |-> params]
        /\ wire' = <<>>
        /\ Enter(0)
    /\ UNCHANGED <<count, device, acc, warnings, codecVars, shaped, sessionVars>>

\* BLHeli4WayInterface.init_flash, as read_config and write_config call it
\* (the interface type it returns is dropped)
InitFlash ==
    /\ pc = "init_flash"
    /\ \E r \in DeviceAnswers("device_init_flash", 0,
                              <<243, 48, 170, device[esc].mode>>) :
        /\ Exchange("device_init_flash", 0, <<esc>>, DEFAULT_EXPECTED_LENGTH, r)
        /\ Logged("device_init_flash")
        /\ IF ExchangeError(built', parsed') # ""
           THEN Abort(ExchangeError(built', parsed'))
           ELSE IF ~ParsePayload(parsed').ok THEN Abort("Decoding error")
           ELSE IF ParsePayload(parsed').shape # "init_flash"
           THEN Abort("AttributeError")
           ELSE Goto("read_memory")
        /\ shaped' = IF ExchangeError(built', parsed') # "" THEN shaped
                     ELSE [done |-> TRUE, of |-> "response"]
                              @@ ParsePayload(parsed')
    /\ UNCHANGED <<image, eeprom, encoded, warnings>>

\* read_memory(CONFIG_ADDRESS, sizeof), EEPROM_LAYOUT.parse and, in
\* write_config, the patch of the decoded image with the parameters
ReadMemory ==
    /\ pc = "read_memory"
    /\ \E r \in DeviceAnswers("device_read", CONFIG_ADDRESS, device[esc].image) :
        /\ Exchange("device_read", CONFIG_ADDRESS, <<LayoutSizeof>>,
                    LayoutSizeof + 8, r)
        /\ Logged("device_read")
        /\ IF ExchangeError(built', parsed') # ""
           THEN /\ Abort(ExchangeError(built', parsed'))
                /\ UNCHANGED <<image, eeprom, warnings>>
           ELSE /\ image' = parsed'.payload
                /\ LET lp == LayoutParse(parsed'.payload)
                   IN  IF ~lp.ok
                       THEN /\ eeprom' = [done |-> TRUE] @@ lp
                            /\ Abort("construct error")
                            /\ UNCHANGED warnings
                       ELSE IF op.name \in WriteOps
                       THEN /\ eeprom' = [done |-> TRUE, ok |-> TRUE,
                                          fields |-> PatchFields(lp.fields,
                                                                 op.params)]
                            /\ warnings' =
                                  warnings \o PatchWarnings(esc, op.params)
                            /\ Goto("erase_page")
                       ELSE /\ eeprom' = [done |-> TRUE] @@ lp
                            /\ Goto("reset_esc")
                            /\ UNCHANGED warnings
    /\ UNCHANGED <<encoded, shaped>>

\* the erase request written and its response left unread
ErasePageUnread ==
    /\ pc = "erase_page"
    /\ call' = [command |-> EnumStr("device_page_erase"), given |-> TRUE,
                address |-> 0, payload |-> <<CONFIG_ADDRESS \div PAGE_SIZE>>]
    /\ built' = [done |-> TRUE]
                   @@ Build(EnumStr("device_page_erase"), 0,
                            <<CONFIG_ADDRESS \div PAGE_SIZE>>)
    /\ wire' = Append(wire, built'.frame)
    /\ Goto("write_memory")
    /\ UNCHANGED <<rx, via, parsed, replies, image, eeprom, encoded, warnings,
                   shaped, sessionVars>>

\* erase_page(int(CONFIG_ADDRESS / PAGE_SIZE))
ErasePage ==
    /\ pc = "erase_page"
    /\ \E r \in DeviceAnswers("device_page_erase", 0, <<0>>) :
        /\ Exchange("device_page_erase", 0, <<CONFIG_ADDRESS \div PAGE_SIZE>>,
                    DEFAULT_EXPECTED_LENGTH, r)
        /\ Logged("device_page_erase")
        /\ IF ExchangeError(built', parsed') # ""
           THEN Abort(ExchangeError(built', parsed'))
           ELSE Goto("write_memory")
    /\ UNCHANGED <<image, eeprom, encoded, warnings, shaped>>

\* the encoding error swallowed and the instance reset all the same
WriteMemoryResetsOnEncodeError ==
    /\ pc = "write_memory"
    /\ encoded' = [done |-> TRUE] @@ LayoutBuild(eeprom.fields)
    /\ IF ~encoded'.ok
       THEN /\ Goto("reset_esc")
            /\ UNCHANGED <<codecVars, wire, replies, sessionVars>>
       ELSE \E r \in DeviceAnswers("device_write", CONFIG_ADDRESS, <<0>>) :
              /\ Exchange("device_write", CONFIG_ADDRESS, encoded'.bytes,
                          DEFAULT_EXPECTED_LENGTH, r)
              /\ Logged("device_write")
              /\ IF ExchangeError(built', parsed') # ""
                 THEN Abort(ExchangeError(built', parsed'))
                 ELSE Goto("reset_esc")
    /\ UNCHANGED <<image, eeprom, warnings, shaped>>

\* write_memory(CONFIG_ADDRESS, EEPROM_LAYOUT.build(eeprom)): the image is
\* built first, then sent
WriteMemory ==
    /\ pc = "write_memory"
    /\ encoded' = [done |-> TRUE] @@ LayoutBuild(eeprom.fields)
    /\ IF ~encoded'.ok
       THEN /\ Abort("construct error")
            /\ UNCHANGED <<codecVars, wire, replies, sessionVars>>
       ELSE \E r \in DeviceAnswers("device_write", CONFIG_ADDRESS, <<0>>) :
              /\ Exchange("device_write", CONFIG_ADDRESS, encoded'.bytes,
                          DEFAULT_EXPECTED_LENGTH, r)
              /\ Logged("device_write")
              /\ IF ExchangeError(built', parsed') # ""
                 THEN Abort(ExchangeError(built', parsed'))
                 ELSE Goto("reset_esc")
    /\ UNCHANGED <<image, eeprom, warnings, shaped>>

\* the loop starting over on the same instance
NextInstanceSame ==
    /\ esc' = esc
    /\ pc' = "init_flash"
    /\ mark' = Len(wire')
    /\ replies' = <<>>
    /\ image' = <<>>
    /\ eeprom' = NotDecoded
    /\ encoded' = NotEncoded
    /\ result' = result

\* the instance after esc in the loop of read_config_all / write_config_all
NextInstance ==
    /\ esc' = esc + 1
    /\ pc' = "init_flash"
    /\ mark' = Len(wire')
    /\ replies' = <<>>
    /\ image' = <<>>
    /\ eeprom' = NotDecoded
    /\ encoded' = NotEncoded
    /\ result' = result

Return(value) ==
    /\ pc' = "done"
    /\ result' = Success(value)
    /\ UNCHANGED <<esc, mark, image, eeprom, encoded>>

\* the loop left with an exception at the first mismatch
ReadAllStepMismatchAborts(common, first, escs) ==
    IF esc # 0 /\ acc.common_config # common
    THEN /\ Abort("Device error")
         /\ Logged("device_reset")
         /\ UNCHANGED <<image, eeprom, encoded, warnings>>
    ELSE /\ acc' = [common_config |-> first, escs |-> escs]
         /\ warnings' = warnings
         /\ IF esc + 1 < count
            THEN NextInstance
            ELSE /\ Return([common_config |-> first, escs |-> escs])
                 /\ Logged("device_reset")

\* the body of the loop of read_config_all once read_config(esc) returned:
\* the entry appended, the common-config of instance 0 kept, a mismatch of
\* a later instance logged, then the next instance or the return
ReadAllStep(common, first, escs) ==
    /\ acc' = [common_config |-> first, escs |-> escs]
    /\ warnings' = IF esc # 0 /\ acc.common_config # common
                   THEN Append(warnings, Warning("mismatch", esc, ""))
                   ELSE warnings
    /\ IF esc + 1 < count
       THEN NextInstance
       ELSE /\ Return([common_config |-> first, escs |-> escs])
            /\ Logged("device_reset")

\* reset_esc(esc) and what follows it: the return of read_config or
\* write_config and, in the *_all loops, the bookkeeping and the next
\* instance
ResetEsc ==
    /\ pc = "reset_esc"
    /\ \E r \in DeviceAnswers("device_reset", 0, <<0>>) :
        /\ Exchange("device_reset", 0, <<esc>>, DEFAULT_EXPECTED_LENGTH, r)
        /\ IF ExchangeError(built', parsed') # ""
           THEN /\ Abort(ExchangeError(built', parsed'))
                /\ UNCHANGED <<image, eeprom, encoded, warnings>>
                /\ Logged("device_reset")
           ELSE LET info == DeviceInfo(eeprom.fields)
                    common == CommonConfig(eeprom.fields)
                    config == EscConfig(eeprom.fields)
                    escs == Append(acc.escs, [info |-> info, config |-> config])
                    first == IF esc = 0 THEN common ELSE acc.common_config
                IN  IF op.name = "read_config"
                    THEN /\ Return([device_info |-> info,
                                    common_config |-> common,
                                    esc_config |-> config])
                         /\ Logged("device_reset")
                         /\ UNCHANGED <<acc, warnings>>
                    ELSE IF op.name = "write_config"
                    THEN /\ Return(<<>>)
                         /\ Logged("device_reset")
                         /\ UNCHANGED <<acc, warnings>>
                    ELSE IF op.name = "read_config_all"
                    THEN ReadAllStep(common, first, escs)
                    ELSE /\ UNCHANGED <<acc, warnings>>
                         /\ IF esc + 1 < count
                            THEN NextInstance
                            ELSE /\ Return(<<>>)
                                 /\ Logged("device_reset")
    /\ UNCHANGED <<count, device, op, shaped>>

Next ==
    \/ CallReadConfig
    \/ CallWriteConfig
    \/ CallReadConfigAll
    \/ CallWriteConfigAll
    \/ InitFlash
    \/ ReadMemory
    \/ ErasePage
    \/ WriteMemory
    \/ ResetEsc

Spec == Init /\ [][Next]_vars

(***************************************************************************)
(* The session on its own (blheli_4way.py, and connect of blheli_silabs.py):*)
(* a caller invokes its methods one after the other; send_command and      *)
(* read_response are separate steps of the method in progress.             *)
(***************************************************************************)
SessionMethods ==
    {"init_flash", "erase_page", "write_memory", "read_memory", "reset_esc",
     "get_name", "test_alive", "probe_esc"}

\* the exchanges a method makes, in order
Exchanges(m) ==
    IF m = "connect" THEN <<"test_alive", "get_name">>
    ELSE IF m = "probe_esc" THEN <<"init_flash">>
    ELSE <<m>>

\* the arguments a method gives to send_command and read_response, for
\* esc 0, page 13, address 0x1A00, two data bytes and a length of 4
ExchangeArgs(e) ==
    IF e = "init_flash"
    THEN [command |-> "device_init_flash", address |-> 0, payload |-> <<0>>,
          expected |-> DEFAULT_EXPECTED_LENGTH]
    ELSE IF e = "erase_page"
    THEN [command |-> "device_page_erase", address |-> 0,
          payload |-> <<CONFIG_ADDRESS \div PAGE_SIZE>>,
          expected |-> DEFAULT_EXPECTED_LENGTH]
    ELSE IF e = "write_memory"
    THEN [command |-> "device_write", address |-> CONFIG_ADDRESS,
          payload |-> <<1, 2>>, expected |-> DEFAULT_EXPECTED_LENGTH]
    ELSE IF e = "read_memory"
    THEN [command |-> "device_read", address |-> CONFIG_ADDRESS,
          payload |-> <<4>>, expected |-> 4 + 8]
    ELSE IF e = "reset_esc"
    THEN [command |-> "device_reset", address |-> 0, payload |-> <<0>>,
          expected |-> DEFAULT_EXPECTED_LENGTH]
    ELSE IF e = "get_name"
    THEN [command |-> "interface_get_name", address |-> 0, payload |-> <<0>>,
          expected |-> DEFAULT_EXPECTED_LENGTH]
    ELSE [command |-> "interface_test_alive", address |-> 0, payload |-> <<0>>,
          expected |-> DEFAULT_EXPECTED_LENGTH]

\* the payload of the interface's answer
AnswerPayload(e) ==
    IF e = "init_flash" THEN <<243, 48, 170, 1>>
    ELSE IF e = "read_memory" THEN <<16, 7, 33, 255>>
    ELSE IF e = "get_name" THEN <<0, 109, 52, 119>>
    ELSE <<0>>

\* the bytes on the line after the request: the answer, or nothing
LineAnswers(e) ==
    { ResponseBuild(EnumStr(ExchangeArgs(e).command), ExchangeArgs(e).address,
                    AnswerPayload(e), EnumStr("ok")),
      <<>> }

InitSession ==
    /\ SessionIdle
    /\ FlowIdle
    /\ shaped = NotShaped
    /\ call = [command |-> EnumStr("interface_exit"), given |-> FALSE,
               address |-> 0, payload |-> <<0>>]
    /\ built = NotBuilt
    /\ rx = <<>>
    /\ via = NoSource
    /\ parsed = NotParsed
    /\ image = <<>>
    /\ eeprom = NotDecoded
    /\ encoded = NotEncoded

\* the caller starts method m
Begin(m) ==
    /\ pending.step = "idle"
    /\ pending.calls < MaxCalls
    /\ op' = [name |-> m, params |-> <<>>]
    /\ wire' = <<>>

\* the method in progress returns or raises
Finish(outcome) ==
    /\ result' = outcome
    /\ pending' = [name |-> "none", step |-> "idle", rest |-> <<>>,
                   calls |-> pending.calls + 1]

SessionRest ==
    <<via, eepromVars, count, device, esc, pc, mark, replies, acc, warnings>>

\* connect(): serial.Serial(...) opens the port or raises; then the
\* flushes, and test_alive and get_name are next
CallConnect ==
    /\ Begin("connect")
    /\ \E opened \in BOOLEAN :
        IF opened
        THEN /\ conn' = "open"
             /\ io' = io \o <<"open", "flush", "flush">>
             /\ pending' = [pending EXCEPT !.name = "connect", !.step = "send",
                                           !.rest = Exchanges("connect")]
             /\ result' = NoResult
        ELSE /\ Finish(Failure("Failed to connect"))
             /\ UNCHANGED <<conn, io>>
    /\ UNCHANGED <<call, built, rx, parsed, shaped, SessionRest>>

\* the port closed without looking at it first
CallDisconnectUnguarded ==
    /\ Begin("disconnect")
    /\ IF conn = "none"
       THEN /\ Finish(Failure("AttributeError"))
            /\ UNCHANGED <<conn, io>>
       ELSE /\ conn' = "closed"
            /\ io' = Append(io, "close")
            /\ Finish(Success(<<>>))
    /\ UNCHANGED <<call, built, rx, parsed, shaped, SessionRest>>

\* disconnect(): closes the port when there is one and it is open
CallDisconnect ==
    /\ Begin("disconnect")
    /\ IF conn = "open"
       THEN conn' = "closed" /\ io' = Append(io, "close")
       ELSE UNCHANGED <<conn, io>>
    /\ Finish(Success(<<>>))
    /\ UNCHANGED <<call, built, rx, parsed, shaped, SessionRest>>

\* one of the methods that exchange with the interface
CallMethod ==
    /\ \E m \in SessionMethods :
        /\ Begin(m)
        /\ pending' = [pending EXCEPT !.name = m, !.step = "send",
                                      !.rest = Exchanges(m)]
    /\ result' = NoResult
    /\ UNCHANGED <<conn, io, call, built, rx, parsed, shaped, SessionRest>>

\* read_response() called by itself on a session that is not connected:
\* serial_connection is None or a closed port, and the read raises
CallReadResponse ==
    /\ Begin("read_response")
    /\ conn # "open"
    /\ Finish(Failure(IF conn = "none" THEN "AttributeError"
                      ELSE "PortNotOpenError"))
    /\ UNCHANGED <<conn, io, call, built, rx, parsed, shaped, SessionRest>>

\* the frame written and the method returning without its read_response
SendCommandUnanswered ==
    /\ pending.step = "send"
    /\ LET a == ExchangeArgs(Head(pending.rest))
       IN  /\ call' = [command |-> EnumStr(a.command), given |-> TRUE,
                       address |-> a.address, payload |-> a.payload]
           /\ built' = [done |-> TRUE]
                          @@ Build(EnumStr(a.command), a.address, a.payload)
           /\ IF conn = "open"
              THEN /\ io' = Append(io, "write")
                   /\ wire' = Append(wire, built'.frame)
                   /\ Finish(Success(<<>>))
              ELSE /\ Finish(Failure(IF conn = "none" THEN "AttributeError"
                                     ELSE "PortNotOpenError"))
                   /\ UNCHANGED <<io, wire>>
    /\ UNCHANGED <<conn, op, rx, parsed, shaped, SessionRest>>

\* send_command: build the frame and write it to the port
SendCommand ==
    /\ pending.step = "send"
    /\ LET a == ExchangeArgs(Head(pending.rest))
       IN  /\ call' = [command |-> EnumStr(a.command), given |-> TRUE,
                       address |-> a.address, payload |-> a.payload]
           /\ built' = [done |-> TRUE]
                          @@ Build(EnumStr(a.command), a.address, a.payload)
           /\ IF ~built'.ok
              THEN /\ Finish(Failure("Encoding error"))
                   /\ UNCHANGED <<io, wire>>
              ELSE IF conn = "open"
              THEN /\ io' = Append(io, "write")
                   /\ wire' = Append(wire, built'.frame)
                   /\ pending' = [pending EXCEPT !.step = "read"]
                   /\ UNCHANGED result
              ELSE /\ Finish(Failure(IF conn = "none" THEN "AttributeError"
                                     ELSE "PortNotOpenError"))
                   /\ UNCHANGED <<io, wire>>
    /\ UNCHANGED <<conn, op, rx, parsed, shaped, SessionRest>>

\* read_response and the rest of the method up to its next send_command
ReadResponse ==
    /\ pending.step = "read"
    /\ LET e == Head(pending.rest)
       IN  \E r \in LineAnswers(e) :
             /\ io' = Append(io, "read")
             /\ rx' = SerialRead(r, ExchangeArgs(e).expected)
             /\ parsed' = [done |-> TRUE] @@ Parse(rx')
             /\ shaped' = IF parsed'.ok /\ e = "init_flash"
                          THEN [done |-> TRUE, of |-> "response"]
                                   @@ ParsePayload(parsed')
                          ELSE shaped
             /\ IF ~parsed'.ok THEN Finish(Failure("Decoding error"))
                ELSE IF e = "init_flash" /\ ~shaped'.ok
                THEN Finish(Failure("Decoding error"))
                ELSE IF e = "get_name"
                        /\ ~Utf8Decode(Tail(parsed'.payload)).ok
                THEN Finish(Failure("UnicodeDecodeError"))
                ELSE IF Len(pending.rest) > 1
                THEN /\ pending' = [pending EXCEPT !.step = "send",
                                                   !.rest = Tail(pending.rest)]
                     /\ UNCHANGED result
                ELSE IF pending.name = "probe_esc"
                THEN Finish(Failure("TypeError"))
                ELSE Finish(Success(<<>>))
    /\ UNCHANGED <<conn, op, call, built, wire, SessionRest>>

NextSession ==
    \/ CallConnect
    \/ CallDisconnect
    \/ CallMethod
    \/ CallReadResponse
    \/ SendCommand
    \/ ReadResponse

SpecSession == InitSession /\ [][NextSession]_vars

(***************************************************************************)
(* Properties of the frame codec.                                          *)
(***************************************************************************)
\* CRC16/XMODEM from its definition: a 16-bit register, initially 0, that
\* takes the message bits most significant first and is reduced by the
\* polynomial 0x1021, with no reflection and no final xor
BitAt(data, k) == (data[(k \div 8) + 1] \div (2 ^ (7 - (k % 8)))) % 2

XmodemBit(reg, bit) ==
    IF (reg \div 32768) # bit
    THEN Xor((reg * 2) % 65536, 4129)
    ELSE (reg * 2) % 65536

RECURSIVE XmodemBits(_, _, _, _)
XmodemBits(reg, data, lo, hi) ==
    IF lo > hi THEN reg
    ELSE IF lo = hi THEN XmodemBit(reg, BitAt(data, lo))
    ELSE LET mid == (lo + hi) \div 2
             left == XmodemBits(reg, data, lo, mid)
         IN  IF left >= 0 THEN XmodemBits(left, data, mid + 1, hi) ELSE 0

XmodemCrc(data) == XmodemBits(0, data, 0, 8 * Len(data) - 1)

ArgAddress(c) == IF c.given THEN c.address ELSE 0
ArgPayload(c) == IF c.given THEN c.payload ELSE <<0>>

ValidCall(c) ==
    /\ c.command.s \in CommandNames
    /\ ArgAddress(c) \in 0..65535
    /\ Len(ArgPayload(c)) <= 255
    /\ \A k \in 1..Len(ArgPayload(c)) : ArgPayload(c)[k] \in 0..255

ExpectedHeader(c) ==
    <<47, COMMAND_ENUM[c.command.s], ArgAddress(c) \div 256,
      ArgAddress(c) % 256, Len(ArgPayload(c))>> \o ArgPayload(c)

\* C1: for every known command, address in 0..65535 and payload of at most
\* 255 bytes, build returns 0x2F, the opcode, the address big-endian, the
\* payload length, the payload and the big-endian CRC16/XMODEM of all these
\* bytes, with address 0 and payload [0] when they are omitted;
\* build('device_erase_all') is 2f3800000100cdf9 and
\* build('device_read', 0xaabb, [15]) is 2f3aaabb010ff446.
C1_BuildLayout ==
    (built.done /\ ValidCall(call)) =>
        /\ built.ok
        /\ built.frame =
              ExpectedHeader(call) \o Int16ub(XmodemCrc(ExpectedHeader(call)))
        /\ (~call.given /\ call.command.s = "device_erase_all")
              => built.frame = <<47, 56, 0, 0, 1, 0, 205, 249>>
        /\ (/\ call.given /\ call.command.s = "device_read"
            /\ call.address = 43707 /\ call.payload = <<15>>)
              => built.frame = <<47, 58, 170, 187, 1, 15, 244, 70>>

C1_Witness ==
    /\ built.done /\ built.ok
    /\ call.given /\ call.address = 65535 /\ Len(call.payload) = 255
    /\ Len(built.frame) = 262

\* C2: parse accepts a byte sequence only if its first byte is 0x2E and its
\* last two bytes are the big-endian CRC16/XMODEM of all preceding bytes;
\* flipping any single bit of the 2-byte CRC field of an accepted frame, or
\* replacing its start byte by another value, makes parse fail.
C2_CrcFieldGuardsFrame ==
    (parsed.done /\ parsed.ok) =>
        /\ rx[1] = 46
        /\ SubSeq(rx, Len(rx) - 1, Len(rx))
              = Int16ub(XmodemCrc(SubSeq(rx, 1, Len(rx) - 2)))
        /\ \A k \in 0..15 : ~Parse(FlipCrcBit(rx, k)).ok
        /\ \A b \in (0..255) \ {46} : ~Parse([rx EXCEPT ![1] = b]).ok

\* C3 as stated: parse(build(command, address, payload)) returns a frame
\* whose command, address and payload are the inputs.
C3_ParseOfBuildRoundTrip ==
    (parsed.done /\ via.src = "loopback") =>
        /\ parsed.ok
        /\ parsed.command = call.command
        /\ parsed.address = ArgAddress(call)
        /\ parsed.payload = ArgPayload(call)

\* C3 amended: parse(build(...)) fails, since a request starts with 0x2F and
\* has no ack byte; parse of the response-direction frame with the same
\* command, address and payload (0x2E, an ack byte before the CRC) returns
\* exactly that command, address and payload, and the ack.
C3_ResponseRoundTrip ==
    /\ (parsed.done /\ via.src = "loopback") => ~parsed.ok
    /\ (parsed.done /\ via.src = "respond" /\ via.trailing = 0) =>
          /\ parsed.ok
          /\ parsed.command = call.command
          /\ parsed.address = ArgAddress(call)
          /\ parsed.payload = ArgPayload(call)
          /\ parsed.ack = via.ack

C3_Witness ==
    /\ parsed.done /\ parsed.ok
    /\ via.src = "respond" /\ via.trailing = 0
    /\ call.given /\ call.address = 6656 /\ call.payload = <<1, 2, 255>>

(***************************************************************************)
(* Properties of the EEPROM layout codec.                                  *)
(***************************************************************************)
\* offsets (from 0) of the reserved bytes and of the boolean flags in the
\* 112-byte image
ReservedOffsets ==
    (3..8) \cup {10, 12} \cup (16..20) \cup (22..24) \cup {30, 32, 34}
        \cup (37..38) \cup (41..63)

FlagOffsets == {15, 36, 39, 40}

ImageOffsets == 0..111

TextOffsets == {64, 80, 96}

\* C6 as stated: decode followed by encode reproduces the original byte at
\* every non-reserved offset, and every reserved byte of the result is 0xFF.
C6_DecodeEncodeIdentity ==
    (encoded.done /\ Len(image) = 112) =>
        /\ encoded.ok
        /\ Len(encoded.bytes) = 112
        /\ \A o \in ImageOffsets \ ReservedOffsets :
                encoded.bytes[o + 1] = image[o + 1]
        /\ \A o \in ReservedOffsets : encoded.bytes[o + 1] = 255

\* C6 amended: a 112-byte image decodes exactly when its three text fields
\* are valid UTF-8 once their trailing NUL bytes are dropped; decode
\* followed by encode then reproduces the original byte at every
\* non-reserved offset other than the four flag bytes, gives 0x00 for a
\* flag byte of 0 and 0x01 for any other flag byte, and 0xFF at every
\* reserved offset.
C6_DecodeEncodeNormalisesFlags ==
    /\ (eeprom.done /\ Len(image) = 112) =>
          (eeprom.ok <=>
              \A t \in TextOffsets :
                  Utf8Decode(RStripNul(SubSeq(image, t + 1, t + 16))).ok)
    /\ (encoded.done /\ Len(image) = 112) =>
          /\ encoded.ok
          /\ Len(encoded.bytes) = 112
          /\ \A o \in ImageOffsets \ (ReservedOffsets \cup FlagOffsets) :
                  encoded.bytes[o + 1] = image[o + 1]
          /\ \A o \in FlagOffsets :
                  encoded.bytes[o + 1] = (IF image[o + 1] = 0 THEN 0 ELSE 1)
          /\ \A o \in ReservedOffsets : encoded.bytes[o + 1] = 255

\* a flag byte of 0xFF and an enumerated byte outside its enumeration went
\* through decode and encode
C6_Witness ==
    /\ encoded.done /\ encoded.ok
    /\ Len(image) = 112
    /\ image[37] = 255 /\ encoded.bytes[37] = 1
    /\ image[6] = 9 /\ encoded.bytes[6] = 255


(***************************************************************************)
(* Properties of the orchestrator.  The requests are read back from the    *)
(* bytes written to the line.                                              *)
(***************************************************************************)
Sent(k) ==
    [start |-> wire[k][1],
     command |-> wire[k][2],
     address |-> 256 * wire[k][3] + wire[k][4],
     payload |-> SubSeq(wire[k], 6, 5 + wire[k][5])]

Request(name, address, payload) ==
    [start |-> 47, command |-> COMMAND_ENUM[name], address |-> address,
     payload |-> payload]

IsCommand(k, name) == wire[k][2] = COMMAND_ENUM[name]

Completed(name) == op.name = name /\ pc = "done" /\ result.status = "success"

Failed(name) == op.name = name /\ pc = "done" /\ result.status = "error"

\* the response to the k-th request of the current instance was read and
\* parsed
ResponseRead(k, name) ==
    /\ k > mark
    /\ Len(replies) >= k - mark
    /\ replies[k - mark].command = name
    /\ replies[k - mark].ok

Nack(k) == replies[k].ok /\ replies[k].ack # EnumStr("ok")

\* C4: a write_config that completes has exchanged exactly init_flash [esc],
\* read of 112 bytes at 0x1A00, page_erase [13], write of the 112-byte
\* encoded image at 0x1A00 and reset [esc], in this order; and in every run
\* a write is sent only right after the erase of the same operation, whose
\* response has been read, and an erase only right after the read of the
\* image, whose response has been read.
C4_WriteSequence ==
    /\ Completed("write_config") =>
          /\ Len(wire) = 5
          /\ Sent(1) = Request("device_init_flash", 0, <<esc>>)
          /\ Sent(2) = Request("device_read", 6656, <<112>>)
          /\ Sent(3) = Request("device_page_erase", 0, <<13>>)
          /\ Sent(4) = Request("device_write", 6656, encoded.bytes)
          /\ Len(Sent(4).payload) = 112
          /\ Sent(5) = Request("device_reset", 0, <<esc>>)
          /\ Len(replies) = 5
          /\ \A k \in 1..5 : replies[k].ok
    /\ \A k \in 1..Len(wire) :
          /\ IsCommand(k, "device_write") =>
                /\ k >= 3
                /\ IsCommand(k - 1, "device_page_erase")
                /\ k - 1 > mark => ResponseRead(k - 1, "device_page_erase")
          /\ IsCommand(k, "device_page_erase") =>
                /\ k >= 2
                /\ IsCommand(k - 1, "device_read")
                /\ k - 1 > mark => ResponseRead(k - 1, "device_read")

\* a write_config with parameters ran to its end
C4_Witness ==
    /\ Completed("write_config")
    /\ Len(op.params) = 2
    /\ Len(wire) = 5
    /\ IsCommand(4, "device_write")

ImageSent == Sent(mark + 4).payload

SuppliedAt(f) == {i \in 1..Len(op.params) : op.params[i][1] = f}

\* C5: in the image sent by device_write, a field not supplied in the call
\* decodes to the value decoded from the image just read from the same
\* instance, and a supplied field of common-config or esc-config decodes to
\* the supplied value.
C5_ReadModifyWrite ==
    (op.name \in {"write_config", "write_config_all"}
        /\ Len(wire) >= mark + 4) =>
        LET read == LayoutParse(image)
            sent == LayoutParse(ImageSent)
        IN  /\ IsCommand(mark + 4, "device_write")
            /\ read.ok
            /\ sent.ok
            /\ \A f \in FieldNames :
                  /\ SuppliedAt(f) = {} => sent.fields[f] = read.fields[f]
                  /\ (SuppliedAt(f) # {} /\ InScope(f)) =>
                        \A i \in SuppliedAt(f) :
                            sent.fields[f] = op.params[i][2]

\* the second instance received an image with a supplied enumerated field
\* changed from what it read
C5_Witness ==
    /\ op.name = "write_config_all"
    /\ esc = 1
    /\ Len(wire) >= mark + 4
    /\ SuppliedAt("motor_direction") # {}
    /\ LayoutParse(image).fields["motor_direction"] = EnumStr("normal")
    /\ LayoutParse(ImageSent).fields["motor_direction"] = EnumStr("reversed")
    /\ ImageSent[28] = image[28]

\* C7: a response that parses but carries an ack other than ok aborts the
\* operation: after such a response to device_init_flash or
\* device_page_erase a write operation sends no device_write, and after
\* such a response to device_write the operation does not complete as a
\* success.
C7_NackAborts ==
    (op.name \in {"write_config", "write_config_all"}) =>
        \A k \in 1..Len(replies) :
            /\ (Nack(k) /\ replies[k].command
                              \in {"device_init_flash", "device_page_erase"}) =>
                  \A j \in (mark + k + 1)..Len(wire) :
                      ~IsCommand(j, "device_write")
            /\ (Nack(k) /\ replies[k].command = "device_write") =>
                  ~(pc = "done" /\ result.status = "success")

\* C8: a read_config that completes has exchanged exactly init_flash [esc],
\* read [112] at 0x1A00 and reset [esc], in this order, and has read the
\* response to the reset; no read operation ever sends a page_erase or a
\* write.
C8_ReadSequence ==
    /\ Completed("read_config") =>
          /\ Len(wire) = 3
          /\ Sent(1) = Request("device_init_flash", 0, <<esc>>)
          /\ Sent(2) = Request("device_read", 6656, <<112>>)
          /\ Sent(3) = Request("device_reset", 0, <<esc>>)
          /\ ResponseRead(3, "device_reset")
    /\ op.name \in {"read_config", "read_config_all"} =>
          \A k \in 1..Len(wire) :
              /\ ~IsCommand(k, "device_page_erase")
              /\ ~IsCommand(k, "device_write")

\* a read_config of the last of three instances returned
C8_Witness ==
    /\ Completed("read_config")
    /\ count = 3
    /\ esc = 2
    /\ Len(replies) = 3
    /\ result.value.esc_config["motor_direction"] = EnumStr("normal")

\* the common-config fields held by instance e
CommonOf(e) == CommonConfig(LayoutParse(device[e].image).fields)

DiffFields(a, b) == {f \in Range(COMMON_CONFIG_FIELDS) : a[f] # b[f]}

Instances == 0..(count - 1)

\* instance k differs from every other in exactly one common-config field
\* and the others agree with one another
OddOne(k) ==
    /\ \A e \in Instances \ {k} : Cardinality(DiffFields(CommonOf(k), CommonOf(e))) = 1
    /\ \A d, e \in Instances \ {k} : CommonOf(d) = CommonOf(e)

RECURSIVE SelectKind(_, _)
SelectKind(log, kind) ==
    IF Len(log) = 0 THEN <<>>
    ELSE (IF Head(log).kind = kind THEN <<Head(log)>> ELSE <<>>)
         \o SelectKind(Tail(log), kind)

Mismatches == SelectKind(warnings, "mismatch")

\* C9 as stated: after read_config_all over two or more instances, no
\* mismatch warning when all instances agree on common-config, and exactly
\* one, naming k, when k is the one instance that differs from all others
\* in exactly one common-config field (k = 0 included).
C9_OneWarningNamesOddOne ==
    (Completed("read_config_all") /\ count >= 2) =>
        /\ (\A d, e \in Instances : CommonOf(d) = CommonOf(e)) =>
              Mismatches = <<>>
        /\ \A k \in Instances :
              (OddOne(k) /\ \A j \in Instances \ {k} : ~OddOne(j)) =>
                  /\ Len(Mismatches) = 1
                  /\ Mismatches[1].esc = k

RECURSIVE ExpectedMismatches(_)
ExpectedMismatches(n) ==
    IF n <= 1 THEN <<>>
    ELSE ExpectedMismatches(n - 1)
         \o (IF CommonOf(n - 1) # CommonOf(0)
             THEN <<[kind |-> "mismatch", esc |-> n - 1, key |-> ""]>>
             ELSE <<>>)

\* C9 amended: after read_config_all over two or more instances the
\* mismatch warnings are, in increasing order, one for each instance
\* e >= 1 whose common-config differs from that of instance 0.  Hence none
\* when all agree, exactly one naming k when the odd one is k >= 1, and
\* count - 1 warnings naming 1..count-1 (never 0) when the odd one is
\* instance 0.
C9_MismatchAgainstFirst ==
    (Completed("read_config_all") /\ count >= 2) =>
        /\ Mismatches = ExpectedMismatches(count)
        /\ (\A d, e \in Instances : CommonOf(d) = CommonOf(e)) =>
              Mismatches = <<>>
        /\ \A k \in Instances \ {0} :
              (OddOne(k) /\ \A j \in Instances \ {k} : ~OddOne(j)) =>
                  (Len(Mismatches) = 1 /\ Mismatches[1].esc = k)
        /\ (OddOne(0) /\ \A j \in Instances \ {0} : ~OddOne(j)) =>
              /\ Len(Mismatches) = count - 1
              /\ \A i \in 1..(count - 1) : Mismatches[i].esc = i

\* three instances, the first being the odd one: two warnings
C9_Witness ==
    /\ Completed("read_config_all")
    /\ count = 3
    /\ OddOne(0)
    /\ ~OddOne(1)
    /\ Len(Mismatches) = 2

WriteSteps ==
    <<"device_init_flash", "device_read", "device_page_erase", "device_write",
      "device_reset">>

\* C10: write_config_all runs write_config for esc = 0, 1, ... in
\* increasing order, each through its device_reset before the next starts;
\* when one fails, nothing is sent for a later instance and the call ends
\* with the failure.
C10_WriteAllInOrder ==
    op.name = "write_config_all" =>
        /\ mark = 5 * esc
        /\ esc < count
        /\ Len(wire) <= 5 * (esc + 1)
        /\ \A k \in 1..Len(wire) :
              /\ IsCommand(k, WriteSteps[((k - 1) % 5) + 1])
              /\ (k - 1) % 5 \in {0, 4} => Sent(k).payload = <<(k - 1) \div 5>>
        /\ Completed("write_config_all") =>
              (Len(wire) = 5 * count /\ esc = count - 1)
        /\ (pc = "done") => result.status \in {"success", "error"}
        /\ (pc = "done" /\ Len(wire) < 5 * count) => result.status = "error"
        /\ (pc # "done") => result.status = "none"

\* the write failed on the second of three instances: nine requests were
\* sent, none for the third
C10_Witness ==
    /\ Failed("write_config_all")
    /\ count = 3
    /\ esc = 1
    /\ Len(wire) = 9
    /\ IsCommand(9, "device_write")

\* the supplied names that are in neither common-config nor esc-config
Skipped == {i \in 1..Len(op.params) : ~InScope(op.params[i][1])}

\* C11: in a write operation, a supplied name outside common-config and
\* esc-config (unknown, or a member such as name or layout_revision) is
\* logged as a warning and skipped: the patched container and the image
\* written hold the value read for it, the names supplied after it are
\* still applied, the image is encoded, and the operation goes on to the
\* erase, write and reset (it ends in an error only when an exchange
\* fails).
C11_UnknownFieldSkipped ==
    (op.name \in {"write_config", "write_config_all"}
        /\ op.params = << <<"unknown_field", 1>>, <<"layout_revision", 9>>,
                          <<"name", <<88>> >>, <<"ppm_min_throttle", 30>> >>) =>
        /\ (eeprom.done /\ eeprom.ok) =>
              LET read == LayoutParse(image)
              IN  /\ \A i \in Skipped :
                        /\ \E w \in 1..Len(warnings) :
                              warnings[w] = [kind |-> "invalid_parameter",
                                             esc |-> esc,
                                             key |-> op.params[i][1]]
                        /\ op.params[i][1] \in FieldNames =>
                              eeprom.fields[op.params[i][1]]
                                  = read.fields[op.params[i][1]]
                  /\ eeprom.fields["ppm_min_throttle"] = 30
                  /\ \A f \in FieldNames \ {"ppm_min_throttle"} :
                        eeprom.fields[f] = read.fields[f]
                  /\ pc \in {"erase_page", "write_memory", "reset_esc", "done"}
        /\ encoded.done =>
              /\ encoded.ok
              /\ LayoutParse(encoded.bytes).ok
              /\ LayoutParse(encoded.bytes).fields = eeprom.fields
        /\ Len(wire) >= mark + 4 => ImageSent = encoded.bytes
        /\ result.status = "error" =>
              /\ result.error # "Encoding error"
              /\ \/ ~parsed.ok
                 \/ (eeprom.done /\ ~eeprom.ok)
                 \/ esc \notin 0..(count - 1)
        /\ (pc = "done" /\ Len(replies) = 5 /\ replies[5].ok) =>
              result.status = "success"

\* a write_config with the unknown names completed after its five
\* exchanges, three warnings logged
C11_Witness ==
    /\ Completed("write_config")
    /\ Skipped = {1, 2, 3}
    /\ Len(SelectKind(warnings, "invalid_parameter")) = 3
    /\ Len(wire) = 5
    /\ LayoutParse(ImageSent).fields["ppm_min_throttle"] = 30
    /\ ImageSent[97] = 69

(***************************************************************************)
(* Properties of the session.                                              *)
(***************************************************************************)
IsTransfer(e) == e \in {"write", "read"}

Transfers == SelectSeq(io, IsTransfer)

\* C12: over any sequence of session methods, the writes of request frames
\* and the reads of the port alternate, starting with a write: every read
\* follows a write directly, no second write is made before the read of
\* the first, and a write is unanswered only while its method is between
\* send_command and read_response.
C12_RequestThenResponse ==
    /\ \A k \in 1..Len(Transfers) :
          Transfers[k] = (IF k % 2 = 1 THEN "write" ELSE "read")
    /\ (Len(Transfers) % 2 = 1) <=> (pending.step = "read")
    /\ Len(wire) <= Len(Transfers)

\* four exchanges were made: the two of connect, one of init_flash and the
\* one of the method that just returned
C12_Witness ==
    /\ Len(Transfers) = 8
    /\ pending.step = "idle"
    /\ op.name = "reset_esc"
    /\ result.status = "success"
    /\ conn = "open"

\* a step in which the caller's disconnect() runs
DisconnectStep ==
    /\ pending.step = "idle"
    /\ pending'.calls = pending.calls + 1
    /\ op'.name = "disconnect"

\* C20: the session is disconnected (no port, or a closed one) or
\* connected.  disconnect() raises nothing and leaves the session
\* disconnected: from connected it closes the port once, otherwise it
\* closes nothing and changes nothing.  While the session is disconnected
\* nothing is written to or read from the port; only a connect that opens
\* the port ends that.
C20_Disconnect ==
    [][ /\ conn \in {"none", "open", "closed"}
        /\ DisconnectStep =>
              /\ result'.status = "success"
              /\ conn' # "open"
              /\ IF conn = "open"
                 THEN conn' = "closed" /\ io' = Append(io, "close")
                 ELSE conn' = conn /\ io' = io
              /\ UNCHANGED <<call, built, rx, parsed, shaped>>
        /\ conn # "open" =>
              \/ io' = io /\ conn' = conn
              \/ /\ op'.name = "connect"
                 /\ conn' = "open"
                 /\ io' = io \o <<"open", "flush", "flush">>
      ]_vars

\* after a connect and a disconnect two more calls were made, the last of
\* them a disconnect: nothing more was written, read or closed
C20_Witness ==
    /\ conn = "closed"
    /\ io = <<"open", "flush", "flush", "write", "read", "write", "read",
              "close">>
    /\ op.name = "disconnect"
    /\ result.status = "success"
    /\ pending.calls = 4

\* C13: within one read_config or write_config (alone or inside a *_all
\* loop) each request is sent at most once, and an exchange whose response
\* does not parse is the last one: no further request is written, not even
\* the device_reset, and the call ends with that Decoding error.
C13_NoRetry ==
    (op.name # "idle") =>
        /\ \A j, k \in (mark + 1)..Len(wire) :
              j < k => Sent(j).command # Sent(k).command
        /\ Len(replies) = Len(wire) - mark
        /\ \A k \in 1..Len(replies) :
              ~replies[k].ok =>
                  /\ k = Len(replies)
                  /\ pc = "done"
                  /\ result = Failure("Decoding error")
                  /\ ~IsCommand(Len(wire), "device_reset")
                        \/ replies[k].command = "device_reset"

\* the read of a write_config got no answer: two requests were sent, no
\* erase, no write, no reset
C13_Witness ==
    /\ Failed("write_config")
    /\ Len(wire) = 2
    /\ IsCommand(2, "device_read")
    /\ rx = <<>>
    /\ ~replies[2].ok
    /\ result.error = "Decoding error"

(***************************************************************************)
(* Properties of parse and parse_payload on unknown codes and shapes.      *)
(***************************************************************************)
DefinedOpcodes == (48..53) \cup (55..63)

DefinedAcks == {0, 2, 3, 4, 8, 9, 15}

\* the byte at the ack position of the received bytes, -1 when they end
\* before it
AckByte ==
    IF Len(rx) >= 5 /\ Len(rx) >= 6 + rx[5] THEN rx[6 + rx[5]] ELSE -1

\* C14 as stated: parse fails for every byte sequence whose command byte is
\* not a defined opcode or whose ack byte is not a defined status code,
\* also when the start byte is 0x2E and the crc is correct.
C14_UnknownCodesRejected ==
    (parsed.done /\ Len(rx) >= 2
        /\ (rx[2] \notin DefinedOpcodes \/ AckByte \notin DefinedAcks)) =>
        ~parsed.ok

EnumIndexes == {k \in FieldIndexes : EEPROM_LAYOUT[k].kind = "enum"}

\* the integer the image holds at the k-th member of the layout
RawAt(k) ==
    IF EEPROM_LAYOUT[k].size = 1 THEN image[FieldOffset[k] + 1]
    ELSE 256 * image[FieldOffset[k] + 1] + image[FieldOffset[k] + 2]

OutsideEnumeration(k) ==
    \A n \in DOMAIN EEPROM_LAYOUT[k].mapping :
        EEPROM_LAYOUT[k].mapping[n] # RawAt(k)

\* C15 as stated: decoding fails when the input is not exactly 112 bytes
\* long, shorter or longer, or when the byte(s) of an enumerated field hold
\* a value outside its enumeration.
C15_BadImageRejected ==
    (eeprom.done
        /\ \/ Len(image) # 112
           \/ \E k \in EnumIndexes : OutsideEnumeration(k)) =>
        ~eeprom.ok

RequestTable ==
    {"device_reset", "device_page_erase", "device_read", "device_write",
     "device_c2ck_low", "device_read_eeprom", "device_write_eeprom",
     "interface_set_mode"}

ModeOf(b) ==
    IF b = 0 THEN EnumStr("SiLabsC2")
    ELSE IF b = 1 THEN EnumStr("SiLabsBLB")
    ELSE IF b = 2 THEN EnumStr("AtmelBLB")
    ELSE IF b = 3 THEN EnumStr("AtmelSK")
    ELSE EnumInt(b)

\* C16: parse_payload takes the request table for a frame that starts with
\* 0x2F and the response table otherwise, and the shape of the frame's
\* command in that table: a device_init_flash response decodes to its
\* three leading bytes and a mode (0 SiLabsC2, 1 SiLabsBLB, 2 AtmelBLB,
\* 3 AtmelSK); a command without an entry in the table taken gives the raw
\* payload unchanged, a command with an entry does not.
C16_PayloadShapes ==
    (shaped.done /\ shaped.ok) =>
        /\ shaped.of = "response" =>
              /\ parsed.start_byte = 46
              /\ shaped.raw = parsed.payload
              /\ IF parsed.command = EnumStr("device_init_flash")
                 THEN /\ shaped.shape = "init_flash"
                      /\ shaped.value = SubSeq(parsed.payload, 1, 3)
                      /\ shaped.mode = ModeOf(parsed.payload[4])
                 ELSE /\ shaped.shape = "raw"
                      /\ shaped.value = parsed.payload
        /\ shaped.of = "request" =>
              /\ built.frame[1] = 47
              /\ shaped.raw = SubSeq(built.frame, 6, 5 + built.frame[5])
              /\ IF call.command.s \in RequestTable
                 THEN shaped.shape \in {"struct", "array"}
                 ELSE /\ shaped.shape = "raw"
                      /\ shaped.value = shaped.raw

\* the frame of the self test decoded to mode SiLabsBLB
C16_Witness ==
    /\ shaped.done /\ shaped.ok
    /\ shaped.of = "response"
    /\ rx = <<46, 55, 0, 0, 4, 243, 48, 170, 1, 0, 247, 240>>
    /\ shaped.value = <<243, 48, 170>>
    /\ shaped.mode = EnumStr("SiLabsBLB")

\* C17 as stated: parse_payload fails for a device_init_flash response
\* whose payload is not exactly 4 bytes long, shorter or longer.
C17_InitFlashPayloadExact ==
    (shaped.done /\ shaped.of = "response"
        /\ parsed.command = EnumStr("device_init_flash")
        /\ Len(parsed.payload) # 4) =>
        ~shaped.ok

(***************************************************************************)
(* Properties of the field groups and of the device family.                *)
(***************************************************************************)
GroupNames == {"device_info", "common_config", "esc_config"}

GroupsOf(n) == {g \in GroupNames : n \in DOMAIN result.value[g]}

\* C18 as stated: the three groups returned by read_config partition the
\* named fields of the layout: every named field, each of the three
\* version bytes included, is in exactly one group.
C18_GroupsPartition ==
    Completed("read_config") =>
        \A n \in FieldNames : Cardinality(GroupsOf(n)) = 1

AtmelModes == {EnumStr("AtmelBLB"), EnumStr("AtmelSK")}

\* the device_init_flash response of the instance at hand was read and
\* decoded, and its mode is of the Atmel family
IdentifiedAtmel ==
    /\ op.name \in {"read_config", "write_config"}
    /\ Len(replies) >= 1
    /\ replies[1].ok
    /\ shaped.done /\ shaped.ok
    /\ shaped.mode \in AtmelModes

\* C19 as stated: once the device_init_flash response names an Atmel mode,
\* read_config and write_config abort with a Device error and send no
\* device_read, device_page_erase or device_write to that instance.
C19_AtmelAborts ==
    IdentifiedAtmel =>
        /\ pc = "done" => result = Failure("Device error")
        /\ \A k \in (mark + 2)..Len(wire) :
              /\ ~IsCommand(k, "device_read")
              /\ ~IsCommand(k, "device_page_erase")
              /\ ~IsCommand(k, "device_write")

(***************************************************************************)
(* Properties of read_config_all, of the encoding in write_config and of   *)
(* the instance index.                                                     *)
(***************************************************************************)
\* read_config_all ended and every response of its last instance was read
\* and parsed (those of the earlier instances were, or it had ended there)
ReadAllEndedAnswered ==
    /\ op.name = "read_config_all"
    /\ pc = "done"
    /\ Len(replies) >= 1
    /\ \A k \in 1..Len(replies) : replies[k].ok

\* every instance read once, in index order, and the value returned: the
\* common-config of instance 0 and one (info, esc-config) entry per
\* instance, in index order
ReadAllOutcome ==
    /\ result.status = "success"
    /\ Len(wire) = 3 * count
    /\ \A e \in Instances :
          /\ Sent(3 * e + 1) = Request("device_init_flash", 0, <<e>>)
          /\ Sent(3 * e + 2) = Request("device_read", 6656, <<112>>)
          /\ Sent(3 * e + 3) = Request("device_reset", 0, <<e>>)
    /\ result.value.common_config = CommonOf(0)
    /\ Len(result.value.escs) = count
    /\ \A e \in Instances :
          LET fields == LayoutParse(device[e].image).fields
          IN  result.value.escs[e + 1] =
                  [info |-> DeviceInfo(fields), config |-> EscConfig(fields)]

EraseAnswered ==
    /\ Len(wire) >= mark + 3
    /\ IsCommand(mark + 3, "device_page_erase")
    /\ ResponseRead(mark + 3, "device_page_erase")

\* the image decoded and patched for the instance at hand cannot be encoded
Unencodable ==
    /\ eeprom.done /\ eeprom.ok
    /\ ~LayoutBuild(eeprom.fields).ok

\* C22: write_config encodes the patched image only after the
\* device_page_erase of the instance was sent and its response read; when
\* the encoding fails the operation ends with that error, the erase being
\* the last request sent for the instance (no device_write, no
\* device_reset); and an image that cannot be encoded is never refused
\* before the erase: the erase follows the read all the same.
C22_EncodeAfterErase ==
    op.name \in WriteOps =>
        /\ encoded.done => EraseAnswered
        /\ (encoded.done /\ ~encoded.ok) =>
              /\ pc = "done"
              /\ result = Failure("construct error")
              /\ Len(wire) = mark + 3
        /\ Unencodable =>
              /\ Len(wire) = mark + 2 => (pc = "erase_page" /\ ~encoded.done)
              /\ Len(wire) >= mark + 3 => IsCommand(mark + 3, "device_page_erase")
              /\ Len(wire) <= mark + 3
              /\ (pc = "done" /\ result = Failure("construct error")) =>
                    (EraseAnswered /\ encoded.done)

\* write_config with beep_strength = 256: the page was erased and the
\* erase acknowledged, then the encoding failed; three requests were sent
C22_Witness ==
    /\ Failed("write_config")
    /\ op.params = << <<"beep_strength", 256>> >>
    /\ encoded.done /\ ~encoded.ok
    /\ Len(wire) = 3
    /\ IsCommand(3, "device_page_erase")
    /\ replies[3].ok /\ replies[3].ack = EnumStr("ok")
    /\ result.error = "construct error"

CarriesIndex(k) ==
    IsCommand(k, "device_init_flash") \/ IsCommand(k, "device_reset")

\* the last device_init_flash sent before request k
LastInitFlash(k) ==
    LET before == {j \in 1..(k - 1) : IsCommand(j, "device_init_flash")}
    IN  CHOOSE j \in before : \A i \in before : i <= j

\* C23: every device_init_flash and device_reset sent by read_config,
\* write_config, read_config_all or write_config_all carries one index, in
\* [0, count); read_config(esc) and write_config(esc) with esc < 0 or
\* esc >= count fail before anything is written to the transport; and a
\* device_reset carries the index of the device_init_flash before it.
C23_IndexInRange ==
    /\ \A k \in 1..Len(wire) :
          CarriesIndex(k) =>
              /\ Len(Sent(k).payload) = 1
              /\ Sent(k).payload[1] \in 0..(count - 1)
    /\ (op.name \in {"read_config", "write_config"}
            /\ (esc < 0 \/ esc >= count)) =>
          /\ pc = "done"
          /\ result = Failure("AssertionError")
          /\ wire = <<>>
          /\ io = ConnectTrace
    /\ \A k \in 1..Len(wire) :
          IsCommand(k, "device_reset") =>
              /\ \E j \in 1..(k - 1) : IsCommand(j, "device_init_flash")
              /\ Sent(LastInitFlash(k)).payload = Sent(k).payload
              /\ LastInitFlash(k) > mark => Sent(k).payload = <<esc>>

\* write_config(esc = count) on two instances refused with nothing written
C23_Witness ==
    /\ Failed("write_config")
    /\ count = 2
    /\ esc = count
    /\ result.error = "AssertionError"
    /\ wire = <<>>
    /\ io = ConnectTrace

====
